---------------------------- MODULE Spec2Model ----------------------------
(***************************************************************************)
(* Warehouse path planning as an MDP: the grid model (grid_environment.py) *)
(* and the two solvers, value iteration and policy iteration               *)
(* (mdp_solver.py), with the path trace of visualization.py.               *)
(*                                                                         *)
(* Numbers.  The program computes with Python floats.  The model computes  *)
(* with exact rationals <<n, d>> (d > 0, lowest terms), so sums, products, *)
(* quotients and comparisons are those of the real numbers the floats      *)
(* approximate; rounding error is outside the model.  The configurations   *)
(* are chosen so that every integer of a run fits TLC's 32 bit integers.   *)
(***************************************************************************)
EXTENDS Integers, Sequences, FiniteSets, TLC

VARIABLES cfg, pc, V, policy, iterations, eval_iter, delta, vi_result,
          path, lastQuery, sim_state, path_length, sim_result

vars == <<cfg, pc, V, policy, iterations, eval_iter, delta, vi_result,
          path, lastQuery, sim_state, path_length, sim_result>>

\* The variables of simulate_run
sim == <<sim_state, path_length, sim_result>>

(***************************************************************************)
(* Exact rational arithmetic, standing for Python's float operators.       *)
(***************************************************************************)
RECURSIVE GCD(_, _)
GCD(a, b) == IF b = 0 THEN a ELSE GCD(b, a % b)

IAbs(n) == IF n < 0 THEN -n ELSE n

Rat(n, d) == LET g == GCD(IAbs(n), d) IN <<n \div g, d \div g>>

Zero == <<0, 1>>
One == <<1, 1>>

RAdd(x, y) ==
    LET g == GCD(x[2], y[2])
    IN  Rat(x[1] * (y[2] \div g) + y[1] * (x[2] \div g), (x[2] \div g) * y[2])

RNeg(x) == <<-x[1], x[2]>>

RSub(x, y) == RAdd(x, RNeg(y))

RMul(x, y) ==
    LET g1 == GCD(IAbs(x[1]), y[2])
        g2 == GCD(IAbs(y[1]), x[2])
    IN  <<(x[1] \div g1) * (y[1] \div g2), (x[2] \div g2) * (y[2] \div g1)>>

\* x / y for y > 0 (the only divisor of the program is a sum of positive
\* probabilities, grid_environment.py line 128)
RDiv(x, y) == RMul(x, <<y[2], y[1]>>)

RLess(x, y) ==
    LET g == GCD(x[2], y[2])
    IN  x[1] * (y[2] \div g) < y[1] * (x[2] \div g)

RAbs(x) == <<IAbs(x[1]), x[2]>>

\* Python's max(a, b): the first argument unless the second is larger
RMax(x, y) == IF RLess(x, y) THEN y ELSE x

(***************************************************************************)
(* config.py: one configuration is a record of the module's settings.      *)
(***************************************************************************)
Config(w, h, start, goal, obstacles, rg, ro, rs, gamma, theta, type, pf, pl, pr) ==
    [GRID_WIDTH |-> w, GRID_HEIGHT |-> h, START_POS |-> start, GOAL_POS |-> goal,
     OBSTACLES |-> obstacles,
     REWARD_GOAL |-> rg, REWARD_OBSTACLE |-> ro, REWARD_STEP |-> rs,
     DISCOUNT_FACTOR |-> gamma, CONVERGENCE_THRESHOLD |-> theta,
     TRANSITION_MODEL_TYPE |-> type,
     PROB_FORWARD |-> pf, PROB_LEFT |-> pl, PROB_RIGHT |-> pr]

\* Max steps of a path trace or a simulation run
MAX_PATH_LENGTH == 50

\* Cap on the sweep and cycle counters of the solvers
MaxSweeps == 20

(***************************************************************************)
(* grid_environment.py                                                     *)
(***************************************************************************)
\* self.actions, in the dict's insertion order
ActionOrder == <<"UP", "DOWN", "LEFT", "RIGHT">>

Actions == {ActionOrder[i] : i \in 1..Len(ActionOrder)}

actions(a) ==
    CASE a = "UP" -> <<-1, 0>>
      [] a = "DOWN" -> <<1, 0>>
      [] a = "LEFT" -> <<0, -1>>
      [] a = "RIGHT" -> <<0, 1>>

\* _get_states: the non-obstacle cells, row by row
get_states(c) ==
    LET w == c.GRID_WIDTH
        cells == [i \in 1..(c.GRID_HEIGHT * w) |-> <<(i - 1) \div w, (i - 1) % w>>]
    IN  SelectSeq(cells, LAMBDA s : s \notin c.OBSTACLES)

StateSet(c) == {get_states(c)[i] : i \in 1..Len(get_states(c))}

\* __init__ raises ValueError when start or goal is an obstacle
ConstructRaises(c) == c.START_POS \in c.OBSTACLES \/ c.GOAL_POS \in c.OBSTACLES

get_reward(c, state) ==
    IF state = c.GOAL_POS THEN c.REWARD_GOAL ELSE c.REWARD_STEP

\* A variant without the obstacle test
calculate_next_state_through(c, state, move) ==
    LET next_r == state[1] + move[1]
        next_c == state[2] + move[2]
        next_state == <<next_r, next_c>>
    IN  IF ~(0 <= next_r /\ next_r < c.GRID_HEIGHT /\ 0 <= next_c /\ next_c < c.GRID_WIDTH)
        THEN <<state, c.REWARD_OBSTACLE>>
        ELSE <<next_state, get_reward(c, next_state)>>

\* _calculate_next_state: <<next state, reward>>
calculate_next_state(c, state, move) ==
    LET next_r == state[1] + move[1]
        next_c == state[2] + move[2]
        next_state == <<next_r, next_c>>
    IN  IF ~(0 <= next_r /\ next_r < c.GRID_HEIGHT /\ 0 <= next_c /\ next_c < c.GRID_WIDTH)
        THEN <<state, c.REWARD_OBSTACLE>>
        ELSE IF next_state \in c.OBSTACLES
             THEN <<state, c.REWARD_OBSTACLE>>
             ELSE <<next_state, get_reward(c, next_state)>>

\* A variant without the goal reward
det_without_goal_reward(c, state, action) ==
    LET res == calculate_next_state(c, state, actions(action))
    IN  << <<One, res[1], IF res[2] # c.REWARD_OBSTACLE THEN c.REWARD_STEP ELSE res[2]>> >>

\* _get_deterministic_transitions: a list of one <<prob, next_state, reward>>
get_deterministic_transitions(c, state, action) ==
    LET res == calculate_next_state(c, state, actions(action))
        next_state == res[1]
        reward1 == IF res[2] # c.REWARD_OBSTACLE THEN c.REWARD_STEP ELSE res[2]
        reward2 == IF next_state = c.GOAL_POS THEN c.REWARD_GOAL ELSE reward1
    IN  << <<One, next_state, reward2>> >>

\* action_options[move_type] of _get_stochastic_transitions
action_options(action, move_type) ==
    CASE action = "UP" ->
           (CASE move_type = "forward" -> "UP" [] move_type = "left" -> "LEFT"
              [] move_type = "right" -> "RIGHT")
      [] action = "DOWN" ->
           (CASE move_type = "forward" -> "DOWN" [] move_type = "left" -> "RIGHT"
              [] move_type = "right" -> "LEFT")
      [] action = "LEFT" ->
           (CASE move_type = "forward" -> "LEFT" [] move_type = "left" -> "DOWN"
              [] move_type = "right" -> "UP")
      [] OTHER ->
           (CASE move_type = "forward" -> "RIGHT" [] move_type = "left" -> "UP"
              [] move_type = "right" -> "DOWN")

action_probs(c, move_type) ==
    CASE move_type = "forward" -> c.PROB_FORWARD
      [] move_type = "left" -> c.PROB_LEFT
      [] move_type = "right" -> c.PROB_RIGHT

\* Variants of the merge: one that keeps the first branch's probability, one
\* that never merges
MergeKeepProb(transitions, prob, next_state, move_reward) ==
    IF \E i \in 1..Len(transitions) : transitions[i][2] = next_state
    THEN transitions
    ELSE Append(transitions, <<prob, next_state, move_reward>>)

MergeAppend(transitions, prob, next_state, move_reward) ==
    Append(transitions, <<prob, next_state, move_reward>>)

\* The inner loop of _get_stochastic_transitions: merge the branch into the
\* first outcome with the same next state, or append it
MergeOutcome(transitions, prob, next_state, move_reward) ==
    LET hits == {i \in 1..Len(transitions) : transitions[i][2] = next_state}
    IN  IF hits = {}
        THEN Append(transitions, <<prob, next_state, move_reward>>)
        ELSE LET i == CHOOSE k \in hits : \A m \in hits : k <= m
                 p == transitions[i][1]
                 r == transitions[i][3]
                 new_prob == RAdd(p, prob)
                 new_reward == RDiv(RAdd(RMul(r, p), RMul(move_reward, prob)), new_prob)
             IN  [transitions EXCEPT ![i] = <<new_prob, next_state, new_reward>>]

\* One iteration of "for move_type, prob in action_probs.items()"
StochasticBranch(c, state, action, move_type, transitions) ==
    LET prob == action_probs(c, move_type)
    IN  IF RLess(Zero, prob)
        THEN LET res == calculate_next_state(c, state,
                            actions(action_options(action, move_type)))
             IN  MergeOutcome(transitions, prob, res[1], res[2])
        ELSE transitions

get_stochastic_transitions(c, state, action) ==
    StochasticBranch(c, state, action, "right",
        StochasticBranch(c, state, action, "left",
            StochasticBranch(c, state, action, "forward", <<>>)))

\* A variant without the goal's early return
transitions_goal_not_absorbing(c, state, action) ==
    IF c.TRANSITION_MODEL_TYPE = "deterministic"
    THEN [raised |-> FALSE, outcomes |-> get_deterministic_transitions(c, state, action)]
    ELSE IF c.TRANSITION_MODEL_TYPE = "stochastic"
         THEN [raised |-> FALSE, outcomes |-> get_stochastic_transitions(c, state, action)]
         ELSE [raised |-> TRUE, outcomes |-> <<>>]

\* get_transition_probabilities: raised is TRUE for the ValueError of an
\* invalid transition model type, and the list is then empty
get_transition_probabilities(c, state, action) ==
    IF state = c.GOAL_POS
    THEN [raised |-> FALSE, outcomes |-> << <<One, state, Zero>> >>]
    ELSE IF c.TRANSITION_MODEL_TYPE = "deterministic"
         THEN [raised |-> FALSE, outcomes |-> get_deterministic_transitions(c, state, action)]
         ELSE IF c.TRANSITION_MODEL_TYPE = "stochastic"
              THEN [raised |-> FALSE, outcomes |-> get_stochastic_transitions(c, state, action)]
              ELSE [raised |-> TRUE, outcomes |-> <<>>]

(***************************************************************************)
(* mdp_solver.py                                                           *)
(***************************************************************************)
\* _initialize_values
initialize_values(c) == [s \in StateSet(c) |-> Zero]

\* A variant of the backup without the discounted value of the next state
RECURSIVE q_sum_myopic(_, _, _, _)
q_sum_myopic(c, Vf, outcomes, n) ==
    IF n = 0
    THEN Zero
    ELSE RAdd(q_sum_myopic(c, Vf, outcomes, n - 1),
              RMul(outcomes[n][1], outcomes[n][3]))

\* The Bellman backup of the three solver loops:
\*   q_value += prob * (reward + self.gamma * V[next_state])
RECURSIVE q_sum(_, _, _, _)
q_sum(c, Vf, outcomes, n) ==
    IF n = 0
    THEN Zero
    ELSE RAdd(q_sum(c, Vf, outcomes, n - 1),
              RMul(outcomes[n][1],
                   RAdd(outcomes[n][3], RMul(c.DISCOUNT_FACTOR, Vf[outcomes[n][2]]))))

q_value(c, Vf, state, action) ==
    LET outcomes == get_transition_probabilities(c, state, action).outcomes
    IN  q_sum(c, Vf, outcomes, Len(outcomes))

\* action_values, in the order of self.env.actions
action_values(c, Vf, state) ==
    [i \in 1..Len(ActionOrder) |-> q_value(c, Vf, state, ActionOrder[i])]

\* max(action_values)
RECURSIVE max_value(_, _)
max_value(av, n) == IF n = 1 THEN av[1] ELSE RMax(max_value(av, n - 1), av[n])

\* A variant of the choice that takes the last action with the largest value
best_action_last(av) ==
    LET m == max_value(av, Len(av))
        i == CHOOSE k \in 1..Len(av) : av[k] = m /\ \A j \in (k + 1)..Len(av) : av[j] # m
    IN  ActionOrder[i]

\* max(action_values, key=action_values.get): the first action with the
\* largest value
best_action(av) ==
    LET m == max_value(av, Len(av))
        i == CHOOSE k \in 1..Len(av) : av[k] = m /\ \A j \in 1..(k - 1) : av[j] # m
    IN  ActionOrder[i]

\* A solver loop raises the environment's ValueError at its first query
SolverRaises(c) ==
    \E s \in StateSet(c) :
        s # c.GOAL_POS /\ get_transition_probabilities(c, s, "UP").raised

\* A variant of the sweep that reads the table it is writing
RECURSIVE vi_sweep_in_place(_, _, _)
vi_sweep_in_place(c, Vf, n) ==
    IF n = 0
    THEN [V_new |-> Vf, delta |-> Zero]
    ELSE LET prev == vi_sweep_in_place(c, Vf, n - 1)
             state == get_states(c)[n]
         IN  IF state = c.GOAL_POS
             THEN prev
             ELSE LET av == action_values(c, prev.V_new, state)
                      best_value == max_value(av, Len(av))
                  IN  [V_new |-> [prev.V_new EXCEPT ![state] = best_value],
                       delta |-> RMax(prev.delta, RAbs(RSub(best_value, Vf[state])))]

\* One sweep of value_iteration over the first n states of env.states
RECURSIVE vi_sweep(_, _, _)
vi_sweep(c, Vf, n) ==
    IF n = 0
    THEN [V_new |-> Vf, delta |-> Zero]
    ELSE LET prev == vi_sweep(c, Vf, n - 1)
             state == get_states(c)[n]
         IN  IF state = c.GOAL_POS
             THEN prev
             ELSE LET av == action_values(c, Vf, state)
                      best_value == max_value(av, Len(av))
                  IN  [V_new |-> [prev.V_new EXCEPT ![state] = best_value],
                       delta |-> RMax(prev.delta, RAbs(RSub(best_value, Vf[state])))]

\* A variant of the exit test with the comparison turned around
converged_reversed(c, d) == RLess(c.CONVERGENCE_THRESHOLD, d)

\* The loop's exit test: if delta < self.theta: break
converged(c, d) == RLess(d, c.CONVERGENCE_THRESHOLD)

\* _extract_policy
extract_policy(c, Vf) ==
    [s \in StateSet(c) |->
        IF s = c.GOAL_POS THEN "GOAL" ELSE best_action(action_values(c, Vf, s))]

\* _initialize_policy: any action for every state of env.states
initialize_policy(c) == [StateSet(c) -> Actions]

\* One sweep of _policy_evaluation over the first n states of env.states
RECURSIVE pe_sweep(_, _, _, _)
pe_sweep(c, pol, Vf, n) ==
    IF n = 0
    THEN [V_new |-> Vf, delta |-> Zero]
    ELSE LET prev == pe_sweep(c, pol, Vf, n - 1)
             state == get_states(c)[n]
         IN  IF state = c.GOAL_POS
             THEN prev
             ELSE LET new_value == q_value(c, Vf, state, pol[state])
                  IN  [V_new |-> [prev.V_new EXCEPT ![state] = new_value],
                       delta |-> RMax(prev.delta, RAbs(RSub(new_value, Vf[state])))]

\* A variant of the improvement that keeps the policy as it is
improve_nothing(c, pol, Vf, n) == [new_policy |-> pol, policy_stable |-> TRUE]

\* Policy improvement over the first n states of env.states
RECURSIVE improve(_, _, _, _)
improve(c, pol, Vf, n) ==
    IF n = 0
    THEN [new_policy |-> pol, policy_stable |-> TRUE]
    ELSE LET prev == improve(c, pol, Vf, n - 1)
             state == get_states(c)[n]
         IN  IF state = c.GOAL_POS
             THEN prev
             ELSE LET old_action == pol[state]
                      best == best_action(action_values(c, Vf, state))
                  IN  [new_policy |-> [prev.new_policy EXCEPT ![state] = best],
                       policy_stable |-> prev.policy_stable /\ old_action = best]

\* _policy_evaluation as a function: sweeps until delta < theta
RECURSIVE policy_evaluation(_, _, _, _)
policy_evaluation(c, pol, V_init, fuel) ==
    LET sw == pe_sweep(c, pol, V_init, Len(get_states(c)))
    IN  IF converged(c, sw.delta) \/ fuel = 0
        THEN sw.V_new
        ELSE policy_evaluation(c, pol, sw.V_new, fuel - 1)

\* policy_iteration as a function of the initial policy and values
RECURSIVE policy_iteration(_, _, _, _)
policy_iteration(c, pol, Vf, fuel) ==
    LET V_eval == policy_evaluation(c, pol, Vf, MaxSweeps)
        im == improve(c, pol, V_eval, Len(get_states(c)))
    IN  IF im.policy_stable \/ fuel = 0
        THEN [policy |-> im.new_policy, V |-> V_eval]
        ELSE policy_iteration(c, im.new_policy, V_eval, fuel - 1)

(***************************************************************************)
(* The configurations the model runs on.  Discount 1/2 and thresholds 1/4  *)
(* and 1/2 keep the solvers' exact values within 32 bits.                  *)
(***************************************************************************)
Half == <<1, 2>>
Quarter == <<1, 4>>
Shipped == <<<<100, 1>>, <<-10, 1>>, <<-1, 1>>>>
Small == <<<<4, 1>>, <<-2, 1>>, <<-1, 1>>>>
Medium == <<<<8, 1>>, <<-4, 1>>, <<-1, 1>>>>

Grid(w, h, goal, obstacles, rw, theta, type, pf, pl, pr) ==
    Config(w, h, <<0, 0>>, goal, obstacles, rw[1], rw[2], rw[3], Half, theta,
           type, pf, pl, pr)

Configs ==
    { \* one row of three cells, two by two, and a start walled off from the goal
      Grid(3, 1, <<0, 2>>, {}, Shipped, Quarter, "deterministic", Half, Quarter, Quarter),
      Grid(2, 2, <<1, 1>>, {}, Shipped, Quarter, "deterministic", Half, Quarter, Quarter),
      Grid(4, 1, <<0, 3>>, {<<0, 2>>}, Shipped, Quarter, "deterministic", Half, Quarter, Quarter),
      \* stochastic: three branches, a branch of probability 0, an unreachable goal
      Grid(2, 2, <<1, 1>>, {}, Small, Quarter, "stochastic", Half, Quarter, Quarter),
      Grid(3, 1, <<0, 2>>, {}, Medium, Half, "stochastic", Half, Half, Zero),
      Grid(4, 1, <<0, 3>>, {<<0, 2>>}, Small, Half, "stochastic", Half, Quarter, Quarter),
      \* an unrecognized transition model type
      Grid(3, 1, <<0, 2>>, {}, Shipped, Quarter, "random", Half, Quarter, Quarter),
      \* start on an obstacle, goal on an obstacle
      Grid(3, 1, <<0, 2>>, {<<0, 0>>}, Shipped, Quarter, "deterministic", Half, Quarter, Quarter),
      Grid(3, 1, <<0, 2>>, {<<0, 2>>}, Shipped, Quarter, "stochastic", Half, Quarter, Quarter) }

NoResult == [policy |-> <<>>, V |-> <<>>, iterations |-> 0]

Init ==
    /\ cfg \in Configs
    /\ pc = "init"
    /\ V = <<>>
    /\ policy = <<>>
    /\ iterations = 0
    /\ eval_iter = 0
    /\ delta = Zero
    /\ vi_result = NoResult
    /\ path = <<>>
    /\ lastQuery = <<>>
    /\ sim_state = <<>>
    /\ path_length = 0
    /\ sim_result = <<>>

(***************************************************************************)
(* main.py: the environment and the solver are constructed, value          *)
(* iteration runs and policy iteration runs, and the policy of value       *)
(* iteration is traced from the start (plot_value_and_policy and           *)
(* animate_robot_path).  The trace reads the environment and value         *)
(* iteration's result only; the model takes it before policy iteration, so *)
(* that it is taken once and not once per result of policy iteration.      *)
(* In between, a caller may query the transition function.                 *)
(***************************************************************************)
\* env = GridEnvironment(); solver = MDPSolver(env)
Construct ==
    /\ pc = "init"
    /\ pc' = IF ConstructRaises(cfg) THEN "error" ELSE "ready"
    /\ UNCHANGED <<cfg, V, policy, iterations, eval_iter, delta, vi_result, path, lastQuery>>
    /\ UNCHANGED sim

\* env.get_transition_probabilities(state, action), asked by a collaborator
Query ==
    /\ pc = "ready"
    /\ \E s \in StateSet(cfg), a \in Actions :
          lastQuery' = << [state |-> s, action |-> a,
                           result |-> get_transition_probabilities(cfg, s, a)] >>
    /\ UNCHANGED <<cfg, pc, V, policy, iterations, eval_iter, delta, vi_result, path>>
    /\ UNCHANGED sim

\* value_iteration, up to the loop
StartVI ==
    /\ pc = "ready"
    /\ pc' = "vi"
    /\ V' = initialize_values(cfg)
    /\ iterations' = 0
    /\ lastQuery' = <<>>
    /\ UNCHANGED <<cfg, policy, eval_iter, delta, vi_result, path>>
    /\ UNCHANGED sim

\* One pass of value_iteration's while loop
VISweep ==
    /\ pc = "vi"
    /\ iterations < MaxSweeps
    /\ IF SolverRaises(cfg)
       THEN /\ pc' = "error"
            /\ iterations' = iterations + 1
            /\ UNCHANGED <<V, delta>>
       ELSE LET sw == vi_sweep(cfg, V, Len(get_states(cfg)))
            IN  /\ iterations' = iterations + 1
                /\ V' = sw.V_new
                /\ delta' = sw.delta
                /\ pc' = IF converged(cfg, sw.delta) THEN "vi_extract" ELSE "vi"
    /\ UNCHANGED <<cfg, policy, eval_iter, vi_result, path, lastQuery>>
    /\ UNCHANGED sim

\* value_iteration, after the loop
VIExtract ==
    /\ pc = "vi_extract"
    /\ policy' = extract_policy(cfg, V)
    /\ vi_result' = [policy |-> policy', V |-> V, iterations |-> iterations]
    /\ pc' = "vi_done"
    /\ UNCHANGED <<cfg, V, iterations, eval_iter, delta, path, lastQuery>>
    /\ UNCHANGED sim

\* plot_value_and_policy(env, V_vi, policy_vi, ...): the path starts at start_pos
TraceStart ==
    /\ pc = "vi_done"
    /\ path' = <<cfg.START_POS>>
    /\ pc' = "plot"
    /\ UNCHANGED <<cfg, V, policy, iterations, eval_iter, delta, vi_result, lastQuery>>
    /\ UNCHANGED sim

\* The path trace stops at the goal, at a state with no action, and after
\* MAX_PATH_LENGTH steps
TraceStops(c, pol, p) ==
    LET current_state == p[Len(p)]
    IN  \/ Len(p) - 1 >= MAX_PATH_LENGTH
        \/ current_state = c.GOAL_POS
        \/ current_state \notin DOMAIN pol
        \/ pol[current_state] = "GOAL"
        \/ (Len(p) > 1 /\ current_state \in c.OBSTACLES)

\* One pass of the path loop of plot_value_and_policy
TraceStep ==
    /\ pc = "plot"
    /\ IF TraceStops(cfg, vi_result.policy, path)
       THEN /\ pc' = "plot_done"
            /\ path' = path
       ELSE LET current_state == path[Len(path)]
                move == actions(vi_result.policy[current_state])
            IN  /\ path' = Append(path, calculate_next_state(cfg, current_state, move)[1])
                /\ pc' = pc
    /\ UNCHANGED <<cfg, V, policy, iterations, eval_iter, delta, vi_result, lastQuery>>
    /\ UNCHANGED sim

\* policy_iteration, up to the loop
StartPI ==
    /\ pc = "plot_done"
    /\ policy' \in initialize_policy(cfg)
    /\ V' = initialize_values(cfg)
    /\ iterations' = 0
    /\ eval_iter' = 0
    /\ pc' = "pi_cycle"
    /\ UNCHANGED <<cfg, delta, vi_result, path, lastQuery>>
    /\ UNCHANGED sim

\* The head of a cycle: iterations += 1, and _policy_evaluation copies V
PICycle ==
    /\ pc = "pi_cycle"
    /\ iterations < MaxSweeps
    /\ iterations' = iterations + 1
    /\ eval_iter' = 0
    /\ pc' = "pi_eval"
    /\ UNCHANGED <<cfg, V, policy, delta, vi_result, path, lastQuery>>
    /\ UNCHANGED sim

\* One pass of _policy_evaluation's while loop
EvalSweep ==
    /\ pc = "pi_eval"
    /\ eval_iter < MaxSweeps
    /\ IF SolverRaises(cfg)
       THEN /\ pc' = "error"
            /\ eval_iter' = eval_iter + 1
            /\ UNCHANGED <<V, delta>>
       ELSE LET sw == pe_sweep(cfg, policy, V, Len(get_states(cfg)))
            IN  /\ eval_iter' = eval_iter + 1
                /\ V' = sw.V_new
                /\ delta' = sw.delta
                /\ pc' = IF converged(cfg, sw.delta) THEN "pi_improve" ELSE "pi_eval"
    /\ UNCHANGED <<cfg, policy, iterations, vi_result, path, lastQuery>>
    /\ UNCHANGED sim

\* Policy improvement, and the loop's exit test
Improve ==
    /\ pc = "pi_improve"
    /\ LET im == improve(cfg, policy, V, Len(get_states(cfg)))
       IN  /\ policy' = im.new_policy
           /\ pc' = IF im.policy_stable THEN "pi_done" ELSE "pi_cycle"
    /\ UNCHANGED <<cfg, V, iterations, eval_iter, delta, vi_result, path, lastQuery>>
    /\ UNCHANGED sim

Next ==
    \/ Construct
    \/ Query
    \/ StartVI
    \/ VISweep
    \/ VIExtract
    \/ TraceStart
    \/ TraceStep
    \/ StartPI
    \/ PICycle
    \/ EvalSweep
    \/ Improve

Spec == Init /\ [][Next]_vars

(***************************************************************************)
(* Properties of the transition function, stated on the answer to the     *)
(* last query.                                                             *)
(***************************************************************************)
Answered == lastQuery # <<>> /\ ~lastQuery[1].result.raised
asked == lastQuery[1]
answer == lastQuery[1].result.outcomes

RECURSIVE rat_sum(_, _)
rat_sum(xs, n) == IF n = 0 THEN Zero ELSE RAdd(rat_sum(xs, n - 1), xs[n])

ValidProbabilities(c) ==
    /\ \A m \in {"forward", "left", "right"} : ~RLess(action_probs(c, m), Zero)
    /\ RAdd(RAdd(c.PROB_FORWARD, c.PROB_LEFT), c.PROB_RIGHT) = One

\* The cell a heading leads to from s, and where the agent ends: in that cell,
\* or back in s when the cell is off the grid or an obstacle
Cell(s, heading) == <<s[1] + actions(heading)[1], s[2] + actions(heading)[2]>>
Deflected(c, s, heading) == Cell(s, heading) \notin StateSet(c)
Destination(c, s, heading) == IF Deflected(c, s, heading) THEN s ELSE Cell(s, heading)

\* The branches the agent can take: those of nonzero configured probability
Branches(c) == {m \in {"forward", "left", "right"} : RLess(Zero, action_probs(c, m))}

\* C1: for both value_iteration and policy_iteration the returned policy is
\* total over the state space: every non-goal state maps to one of the four
\* actions and the goal state maps to "GOAL".
PolicyTotal(c, pol) ==
    /\ DOMAIN pol = StateSet(c)
    /\ \A s \in StateSet(c) :
          IF s = c.GOAL_POS THEN pol[s] = "GOAL" ELSE pol[s] \in Actions
C1_ReturnedPolicyTotal ==
    /\ pc \in {"vi_done", "plot", "plot_done"} => PolicyTotal(cfg, vi_result.policy)
    /\ pc = "pi_done" => PolicyTotal(cfg, policy)

\* policy_iteration has returned a policy whose goal entry is an action
C1_GoalEntryIsAction ==
    /\ pc = "pi_done"
    /\ PolicyTotal(cfg, vi_result.policy)
    /\ policy[cfg.GOAL_POS] \in Actions

\* C2: for every state and action, in deterministic and in stochastic mode
\* with branch probabilities that are non-negative and sum to 1, the returned
\* outcomes have non-negative probabilities that sum to exactly 1.
C2_ProbabilitiesSumToOne ==
    (Answered /\ ValidProbabilities(cfg)
       /\ cfg.TRANSITION_MODEL_TYPE \in {"deterministic", "stochastic"})
    => /\ \A k \in 1..Len(answer) : ~RLess(answer[k][1], Zero)
       /\ rat_sum([k \in 1..Len(answer) |-> answer[k][1]], Len(answer)) = One

\* A stochastic answer in which all three branches bounce back to the state
C2_Witness ==
    /\ Answered
    /\ cfg.TRANSITION_MODEL_TYPE = "stochastic"
    /\ asked.state # cfg.GOAL_POS
    /\ Cardinality(Branches(cfg)) = 3
    /\ Len(answer) = 1

\* C3: the goal state is absorbing: for each of the four actions the answer
\* at the goal is the single outcome (1, goal, 0).
C3_GoalAbsorbing ==
    \A i \in 1..Len(lastQuery) :
        lastQuery[i].state = cfg.GOAL_POS
        => /\ ~lastQuery[i].result.raised
           /\ lastQuery[i].result.outcomes = << <<One, cfg.GOAL_POS, Zero>> >>

C3_Witness ==
    /\ Answered
    /\ asked.state = cfg.GOAL_POS
    /\ asked.action = "LEFT"
    /\ cfg.TRANSITION_MODEL_TYPE = "stochastic"

\* C4: in deterministic mode a non-goal state and an action give exactly one
\* outcome of probability 1: back in the origin state with the obstacle
\* reward when the move leaves the grid or lands on an obstacle, otherwise in
\* the destination cell with the step reward, or the goal reward at the goal.
C4_DeterministicOutcome ==
    (Answered /\ cfg.TRANSITION_MODEL_TYPE = "deterministic"
       /\ asked.state # cfg.GOAL_POS)
    => LET s == asked.state
           a == asked.action
       IN  answer =
             IF Deflected(cfg, s, a)
             THEN << <<One, s, cfg.REWARD_OBSTACLE>> >>
             ELSE IF Cell(s, a) = cfg.GOAL_POS
                  THEN << <<One, Cell(s, a), cfg.REWARD_GOAL>> >>
                  ELSE << <<One, Cell(s, a), cfg.REWARD_STEP>> >>

\* LEFT at (0,0) on the grid of one row and three columns
C4_Witness ==
    /\ Answered
    /\ cfg.TRANSITION_MODEL_TYPE = "deterministic"
    /\ cfg.GRID_HEIGHT = 1 /\ cfg.GRID_WIDTH = 3
    /\ asked.state = <<0, 0>> /\ asked.action = "LEFT"
    /\ answer = << <<One, <<0, 0>>, cfg.REWARD_OBSTACLE>> >>

\* C5: in stochastic mode a non-goal state and an action give at most three
\* outcomes with pairwise distinct next states; a state that two or more
\* branches resolve to appears once, with the sum of their probabilities and
\* the probability-weighted average of their rewards.  A branch is one of
\* forward, left, right with a nonzero configured probability.
BranchTo(c, s, a, m) == Destination(c, s, action_options(a, m))
BranchReward(c, s, a, m) ==
    IF Deflected(c, s, action_options(a, m)) THEN c.REWARD_OBSTACLE
    ELSE IF BranchTo(c, s, a, m) = c.GOAL_POS THEN c.REWARD_GOAL ELSE c.REWARD_STEP
BranchOrder == <<"forward", "left", "right">>
\* Sum over the branches of B of the branch probability (weighted by the
\* branch reward when weighted is TRUE)
BranchSum(c, s, a, B, weighted) ==
    rat_sum([i \in 1..3 |->
                IF BranchOrder[i] \in B
                THEN IF weighted
                     THEN RMul(action_probs(c, BranchOrder[i]), BranchReward(c, s, a, BranchOrder[i]))
                     ELSE action_probs(c, BranchOrder[i])
                ELSE Zero], 3)
C5_MergedOutcomes ==
    (Answered /\ cfg.TRANSITION_MODEL_TYPE = "stochastic"
       /\ asked.state # cfg.GOAL_POS)
    => LET s == asked.state
           a == asked.action
           To(t) == {m \in Branches(cfg) : BranchTo(cfg, s, a, m) = t}
       IN  /\ Len(answer) <= 3
           /\ \A j, k \in 1..Len(answer) : j # k => answer[j][2] # answer[k][2]
           /\ \A m \in Branches(cfg) :
                 \E k \in 1..Len(answer) : answer[k][2] = BranchTo(cfg, s, a, m)
           /\ \A k \in 1..Len(answer) :
                 /\ To(answer[k][2]) # {}
                 /\ answer[k][1] = BranchSum(cfg, s, a, To(answer[k][2]), FALSE)
                 /\ RMul(answer[k][3], answer[k][1])
                      = BranchSum(cfg, s, a, To(answer[k][2]), TRUE)

\* Two branches bounce back to the origin state and a third one moves on
C5_Witness ==
    /\ Answered
    /\ cfg.TRANSITION_MODEL_TYPE = "stochastic"
    /\ asked.state # cfg.GOAL_POS
    /\ Cardinality(Branches(cfg)) = 3
    /\ Len(answer) = 2
    /\ \E k \in 1..2 :
          /\ answer[k][2] = asked.state
          /\ answer[k][1] = RAdd(cfg.PROB_LEFT, cfg.PROB_RIGHT)

(***************************************************************************)
(* The worked example: three by three cells, no obstacles, discount 9/10,  *)
(* threshold 1/10000, deterministic moves, over a family of rewards.       *)
(* Policy iteration is left out of it.                                     *)
(***************************************************************************)
ScenarioConfigs ==
    { Config(3, 3, <<0, 0>>, <<2, 2>>, {}, <<rg, 1>>, <<ro, 1>>, <<rs, 1>>,
             <<9, 10>>, <<1, 10000>>, "deterministic", <<4, 5>>, <<1, 10>>, <<1, 10>>) :
        rg \in {100, 50, 10}, ro \in {-10, -5}, rs \in {-1, -2} }

InitScenario ==
    /\ cfg \in ScenarioConfigs
    /\ pc = "init"
    /\ V = <<>>
    /\ policy = <<>>
    /\ iterations = 0
    /\ eval_iter = 0
    /\ delta = Zero
    /\ vi_result = NoResult
    /\ path = <<>>
    /\ lastQuery = <<>>
    /\ sim_state = <<>>
    /\ path_length = 0
    /\ sim_result = <<>>

NextScenario ==
    \/ Construct
    \/ StartVI
    \/ VISweep
    \/ VIExtract
    \/ TraceStart
    \/ TraceStep

SpecScenario == InitScenario /\ [][NextScenario]_vars

(***************************************************************************)
(* Properties of construction and of the solvers.                          *)
(***************************************************************************)
UnrecognizedSelector(c) ==
    c.TRANSITION_MODEL_TYPE \notin {"deterministic", "stochastic"}

\* C6: an unrecognized transition model selector is a fatal error raised at
\* construction: no environment is constructed and no transition query is
\* answered under such a selector.
C6_SelectorFatalAtConstruction ==
    UnrecognizedSelector(cfg) => pc \in {"init", "error"} /\ ~Answered

\* Under an unrecognized selector the environment is constructed and has
\* answered a query
C6_ConstructedAndAnswered ==
    /\ UnrecognizedSelector(cfg)
    /\ pc = "ready"
    /\ Answered
    /\ answer = << <<One, cfg.GOAL_POS, Zero>> >>

\* C7, as stated: value_iteration and policy_iteration return values that
\* differ by less than theta at every state, and policies that agree at every
\* non-goal state whose best action is unique.
Gap(s) == RAbs(RSub(V[s], vi_result.V[s]))
UniqueBest(c, Vf, s) ==
    LET av == action_values(c, Vf, s)
    IN  Cardinality({i \in 1..Len(av) : av[i] = max_value(av, Len(av))}) = 1
ValueBound(c) ==
    RDiv(RMul(RAdd(One, One), RMul(c.DISCOUNT_FACTOR, c.CONVERGENCE_THRESHOLD)),
         RSub(One, c.DISCOUNT_FACTOR))
LeadBound(c) == RMul(RAdd(One, One), RMul(c.DISCOUNT_FACTOR, ValueBound(c)))
LeadsBy(c, Vf, s, m) ==
    LET av == action_values(c, Vf, s)
        best == max_value(av, Len(av))
    IN  \E i \in 1..Len(av) :
           /\ av[i] = best
           /\ \A j \in 1..Len(av) : j # i => ~RLess(RSub(best, av[j]), m)
AllUp(c) == [s \in StateSet(c) |-> "UP"]
FromAllUp(c) == policy_iteration(c, AllUp(c), initialize_values(c), MaxSweeps)
C8_ResultIndependentOfInitialPolicy ==
    pc = "pi_done" => policy = FromAllUp(cfg).policy /\ V = FromAllUp(cfg).V

\* policy_iteration has returned a policy that differs at the goal, and
\* values that differ, from those returned from the all-UP initial policy
C8_ResultsDiffer ==
    /\ pc = "pi_done"
    /\ policy[cfg.GOAL_POS] # FromAllUp(cfg).policy[cfg.GOAL_POS]
    /\ V # FromAllUp(cfg).V

\* C9: on the grid of three by three cells with no obstacles, start (0,0),
\* goal (2,2), deterministic moves, discount 9/10 and threshold 1/10000,
\* value_iteration terminates (its loop stops before the cap on sweeps), its
\* policy at (0,0) is DOWN or RIGHT, and following the policy from (0,0)
\* reaches (2,2) in exactly 4 steps.
C9_ScenarioSolved ==
    /\ pc = "vi" => iterations < MaxSweeps
    /\ pc \in {"vi_done", "plot", "plot_done"}
          => vi_result.policy[<<0, 0>>] \in {"DOWN", "RIGHT"}
    /\ pc = "plot"
          => /\ Len(path) <= 5
             /\ \A k \in 1..Len(path) : path[k] = <<2, 2>> => k = 5
    /\ pc = "plot_done"
          => /\ Len(path) = 5
             /\ path[1] = <<0, 0>>
             /\ path[5] = <<2, 2>>

\* The example with the shipped rewards, solved and traced
C9_Witness ==
    /\ pc = "plot_done"
    /\ cfg.GRID_WIDTH = 3 /\ cfg.GRID_HEIGHT = 3
    /\ cfg.REWARD_GOAL = <<100, 1>> /\ cfg.REWARD_OBSTACLE = <<-10, 1>>
    /\ cfg.REWARD_STEP = <<-1, 1>>
    /\ vi_result.iterations > 1
    /\ path[Len(path)] = <<2, 2>>

\* C10: value_iteration's loop stops exactly at the first sweep whose delta,
\* the largest |new value - old value| over the non-goal states, is below
\* theta, and on a valid grid such a sweep is reached (before the cap on
\* sweeps), also when the goal cannot be reached from some states.
RECURSIVE largest_change(_, _, _, _)
largest_change(c, Vold, Vnew, n) ==
    IF n = 0
    THEN Zero
    ELSE LET s == get_states(c)[n]
             rest == largest_change(c, Vold, Vnew, n - 1)
         IN  IF s = c.GOAL_POS THEN rest
             ELSE RMax(rest, RAbs(RSub(Vnew[s], Vold[s])))
C10_StopsAtFirstSmallDelta ==
    /\ [][(pc = "vi" /\ ~UnrecognizedSelector(cfg))
           => /\ iterations' = iterations + 1
              /\ IF RLess(largest_change(cfg, V, V', Len(get_states(cfg))),
                          cfg.CONVERGENCE_THRESHOLD)
                 THEN pc' = "vi_extract"
                 ELSE pc' = "vi"]_vars
    /\ [](pc = "vi" => iterations < MaxSweeps)

\* The loop has stopped after several sweeps on the grid whose goal cannot be
\* reached from the start
C10_Witness ==
    /\ pc = "vi_extract"
    /\ cfg.OBSTACLES # {}
    /\ iterations > 2
    /\ RLess(delta, cfg.CONVERGENCE_THRESHOLD)

\* C11: every sweep of value_iteration and of _policy_evaluation is
\* synchronous: the new value of each state is computed from the table as it
\* stood at the start of the sweep, and the table is replaced as a whole; the
\* new table is a function of the old one state by state, whatever the order
\* in which the states are visited.
BackedUp(c, Vold, s) ==
    LET av == action_values(c, Vold, s) IN max_value(av, Len(av))
C11_SweepsSynchronous ==
    /\ [][(pc = "vi" /\ pc' \in {"vi", "vi_extract"})
           => /\ DOMAIN V' = StateSet(cfg)
              /\ \A s \in StateSet(cfg) :
                    V'[s] = IF s = cfg.GOAL_POS THEN V[s] ELSE BackedUp(cfg, V, s)]_vars
    /\ [][(pc = "pi_eval" /\ pc' \in {"pi_eval", "pi_improve"})
           => /\ DOMAIN V' = StateSet(cfg)
              /\ \A s \in StateSet(cfg) :
                    V'[s] = IF s = cfg.GOAL_POS THEN V[s]
                            ELSE q_value(cfg, V, s, policy[s])]_vars

\* Both solvers have swept a table that was no longer all zero
C11_Witness ==
    /\ pc = "pi_eval"
    /\ eval_iter >= 2
    /\ vi_result.iterations >= 3
    /\ \E s \in StateSet(cfg) : V[s] # Zero

\* C12: policy_iteration's outer loop stops at the first cycle in which the
\* improvement changes the action of no non-goal state, and never earlier; at
\* return the entry of every non-goal state is the first action in the order
\* UP, DOWN, LEFT, RIGHT that attains the largest Q(s, a) under the returned
\* value function.
Attains(c, Vf, s, a) ==
    \A b \in Actions : ~RLess(q_value(c, Vf, s, a), q_value(c, Vf, s, b))
FirstBest(c, Vf, s, a) ==
    \E i \in 1..4 :
        /\ <<"UP", "DOWN", "LEFT", "RIGHT">>[i] = a
        /\ Attains(c, Vf, s, a)
        /\ \A j \in 1..(i - 1) : ~Attains(c, Vf, s, <<"UP", "DOWN", "LEFT", "RIGHT">>[j])
C12_StopsWhenStable ==
    /\ [][pc = "pi_improve"
           => /\ pc' \in {"pi_done", "pi_cycle"}
              /\ pc' = "pi_done"
                   <=> \A s \in StateSet(cfg) \ {cfg.GOAL_POS} : policy'[s] = policy[s]]_vars
    /\ [](pc = "pi_done"
           => \A s \in StateSet(cfg) \ {cfg.GOAL_POS} : FirstBest(cfg, V, s, policy[s]))

\* policy_iteration has returned after a cycle that changed the policy, and at
\* some state two actions attain the largest value
C12_Witness ==
    /\ pc = "pi_done"
    /\ iterations >= 2
    /\ \E s \in StateSet(cfg) \ {cfg.GOAL_POS} :
          \E a, b \in Actions : a # b /\ Attains(cfg, V, s, a) /\ Attains(cfg, V, s, b)

(***************************************************************************)
(* evaluation.py: simulate_run(env, policy), one rollout of a policy from   *)
(* the start state.  The policy is any mapping a caller may pass: a total   *)
(* one, one with the "GOAL" sentinel at any state, one without an entry for *)
(* a state.                                                                 *)
(***************************************************************************)
RolloutConfigs ==
    { Grid(3, 1, <<0, 2>>, {}, Shipped, Quarter, "deterministic", Half, Quarter, Quarter),
      Grid(3, 1, <<0, 2>>, {}, Medium, Half, "stochastic", Half, Half, Zero),
      Grid(4, 1, <<0, 3>>, {<<0, 2>>}, Small, Half, "stochastic", Half, Quarter, Quarter),
      Grid(3, 1, <<0, 2>>, {}, Shipped, Quarter, "random", Half, Quarter, Quarter) }

RolloutPolicies(c) ==
    [StateSet(c) -> {"LEFT", "RIGHT", "GOAL"}]
      \cup [StateSet(c) \ {c.START_POS} -> {"LEFT"}]

InitRollout ==
    /\ cfg \in RolloutConfigs
    /\ pc = "init"
    /\ V = <<>>
    /\ policy = <<>>
    /\ iterations = 0
    /\ eval_iter = 0
    /\ delta = Zero
    /\ vi_result = NoResult
    /\ path = <<>>
    /\ lastQuery = <<>>
    /\ sim_state = <<>>
    /\ path_length = 0
    /\ sim_result = <<>>

\* simulate_run, up to the loop
SimStart ==
    /\ pc = "ready"
    /\ policy' \in RolloutPolicies(cfg)
    /\ sim_state' = cfg.START_POS
    /\ path_length' = 0
    /\ pc' = "sim"
    /\ lastQuery' = <<>>
    /\ UNCHANGED <<cfg, V, iterations, eval_iter, delta, vi_result, path, sim_result>>

\* One pass of simulate_run's for loop, or the return after its last pass.
\* np.random.choice draws an outcome of nonzero probability.
SimStep ==
    /\ pc = "sim"
    /\ IF path_length >= MAX_PATH_LENGTH
       THEN /\ sim_result' = << <<FALSE, path_length>> >>
            /\ pc' = "sim_done"
            /\ UNCHANGED <<sim_state, path_length>>
       ELSE IF sim_state = cfg.GOAL_POS
       THEN /\ sim_result' = << <<TRUE, path_length>> >>
            /\ pc' = "sim_done"
            /\ UNCHANGED <<sim_state, path_length>>
       ELSE IF sim_state \notin DOMAIN policy \/ policy[sim_state] = "GOAL"
       THEN /\ sim_result' = << <<FALSE, path_length>> >>
            /\ pc' = "sim_done"
            /\ UNCHANGED <<sim_state, path_length>>
       ELSE LET transitions == get_transition_probabilities(cfg, sim_state, policy[sim_state])
            IN  IF transitions.raised
                THEN /\ pc' = "error"
                     /\ UNCHANGED <<sim_state, path_length, sim_result>>
                ELSE /\ \E idx \in 1..Len(transitions.outcomes) :
                           /\ RLess(Zero, transitions.outcomes[idx][1])
                           /\ sim_state' = transitions.outcomes[idx][2]
                     /\ path_length' = path_length + 1
                     /\ pc' = "sim"
                     /\ UNCHANGED sim_result
    /\ UNCHANGED <<cfg, V, policy, iterations, eval_iter, delta, vi_result, path, lastQuery>>

NextRollout ==
    \/ Construct
    \/ SimStart
    \/ SimStep

SpecRollout == InitRollout /\ [][NextRollout]_vars

\* C13: simulate_run takes at most MAX_PATH_LENGTH steps from the start state
\* and returns (True, n) whenever the rollout has reached the goal after
\* n <= MAX_PATH_LENGTH steps; it returns failure only if the goal was not
\* reached within MAX_PATH_LENGTH steps or the policy has no action, or the
\* "GOAL" sentinel, at a non-goal state, where it stopped.
NoAction(pol, s) == s \notin DOMAIN pol \/ pol[s] = "GOAL"
C13_RolloutResult ==
    /\ pc \in {"sim", "sim_done"} => path_length <= MAX_PATH_LENGTH
    /\ pc = "sim_done"
          => /\ sim_result[1][2] = path_length
             /\ sim_state = cfg.GOAL_POS => sim_result[1][1] = TRUE
             /\ sim_result[1][1] = FALSE
                   => /\ sim_state # cfg.GOAL_POS
                      /\ path_length = MAX_PATH_LENGTH \/ NoAction(policy, sim_state)

\* A rollout that reached the goal with its last step has returned failure
C13_GoalAtLastStepFails ==
    /\ pc = "sim_done"
    /\ sim_state = cfg.GOAL_POS
    /\ path_length = MAX_PATH_LENGTH
    /\ sim_result = << <<FALSE, MAX_PATH_LENGTH>> >>

(***************************************************************************)
(* The whole program: main.py with the rollouts of compare_algorithms.     *)
(***************************************************************************)
NextAll ==
    \/ Next
    \/ SimStart
    \/ SimStep

SpecAll == Init /\ [][NextAll]_vars

\* C14: the state space is closed under transitions: for every state of
\* env.states and every action, in both modes, the next state of every
\* outcome is inside the grid, is not an obstacle and is in env.states, so
\* every lookup V[next_state] of the solvers is defined, and no rollout and
\* no path trace started in the state space enters an obstacle or leaves the
\* grid.
InGrid(c, s) ==
    /\ 0 <= s[1] /\ s[1] < c.GRID_HEIGHT
    /\ 0 <= s[2] /\ s[2] < c.GRID_WIDTH
Inside(c, s) == InGrid(c, s) /\ s \notin c.OBSTACLES /\ s \in StateSet(c)
C14_StateSpaceClosed ==
    /\ Answered => \A k \in 1..Len(answer) : Inside(cfg, answer[k][2])
    /\ pc \in {"vi", "vi_extract", "pi_cycle", "pi_eval", "pi_improve"}
          => \A s \in StateSet(cfg), a \in Actions :
                LET outcomes == get_transition_probabilities(cfg, s, a).outcomes
                IN  \A k \in 1..Len(outcomes) :
                       Inside(cfg, outcomes[k][2]) /\ outcomes[k][2] \in DOMAIN V
    /\ (pc \in {"plot", "plot_done"} /\ Inside(cfg, path[1]))
          => \A k \in 1..Len(path) : Inside(cfg, path[k])
    /\ (pc \in {"sim", "sim_done"} /\ Inside(cfg, cfg.START_POS))
          => Inside(cfg, sim_state)

\* A rollout stands next to the obstacle and its policy heads into it
C14_Witness ==
    /\ pc = "sim"
    /\ path_length >= 2
    /\ cfg.TRANSITION_MODEL_TYPE = "stochastic"
    /\ sim_state \in DOMAIN policy
    /\ policy[sim_state] = "RIGHT"
    /\ <<sim_state[1], sim_state[2] + 1>> \in cfg.OBSTACLES

=============================================================================
